---- MODULE Spec2Model ----
(***************************************************************************)
(* Model of src/goldeneye.py: the Alpha load-generation engine.            *)
(*                                                                         *)
(* One asyncio event loop runs the main task (run_wrapper: __aenter__,     *)
(* run, __aexit__), one task per worker and one task per strike of a       *)
(* batch.  Tasks switch only at an await that suspends, so every action    *)
(* below is the code between two suspension points of one task.            *)
(***************************************************************************)
EXTENDS Integers, Sequences, FiniteSets, TLC

\* ---------------------------------------------------------------- bounds
MaxWorkers == 2
MaxSockets == 2
MaxGen     == 3
MaxLatency == 1

\* ------------------------------------------------------- program constants
METHOD_GET  == "get"
METHOD_POST == "post"
METHOD_RAND == "random"
\* a method string the Alpha constructor accepts but strike() does not know
METHOD_PUT  == "put"
\* duration: Optional[int] = None
NoDuration  == -1

Methods   == {METHOD_GET, METHOD_POST, METHOD_RAND, METHOD_PUT}
Durations == {NoDuration, 0, 1}
\* rate_limit arguments below, at and above the floor of 1
RateArgs  == {-1, 0, 1, 2}
\* HTTP status codes around the borders of the success range, and 500
Statuses  == {199, 200, 399, 400, 500}

VARIABLES
  \* RunConfig (Alpha.__init__)
  workers, sockets, method, rate_limit, dry_run, duration,
  \* engine state (Alpha.__init__)
  counter, latencies, start_time, running, session,
  \* position of the main task (run_wrapper / __aenter__ / run / __aexit__)
  mpc,
  \* per worker task: position, and the `tasks` list of its current batch
  wpc, batch,
  \* every strike coroutine created so far, in order of generation
  strikes,
  \* output of print_stats() in __aexit__ (empty until produced)
  snapshot,
  \* exception that is on its way out of asyncio.run() ("none" if none)
  exc,
  \* history: an interrupt arrived; what has happened to strikes so far
  interrupted, tally

cfgVars == <<workers, sockets, method, rate_limit, dry_run, duration>>
engVars == <<counter, latencies, start_time, running, session>>
vars == <<workers, sockets, method, rate_limit, dry_run, duration,
          counter, latencies, start_time, running, session,
          mpc, wpc, batch, strikes, snapshot, exc, interrupted, tally>>

\* ----------------------------------------------------------------- helpers
Max(a, b) == IF a >= b THEN a ELSE b

RECURSIVE SumSeq(_)
SumSeq(s) == IF s = <<>> THEN 0 ELSE Head(s) + SumSeq(Tail(s))

RECURSIVE MaxSeq(_)
MaxSeq(s) == IF s = <<>> THEN 0 ELSE Max(Head(s), MaxSeq(Tail(s)))

\* str.upper() on the method strings
Upper(m) ==
  CASE m = "get"    -> "GET"
    [] m = "post"   -> "POST"
    [] m = "random" -> "RANDOM"
    [] m = "put"    -> "PUT"
    [] OTHER        -> m

\* random.choice([METHOD_GET, METHOD_POST]) if self.method == METHOD_RAND
\* else self.method: the set of methods one call may resolve to
ResolveMethod ==
  IF method = METHOD_RAND THEN {METHOD_GET, METHOD_POST} ELSE {method}

BaseHeaders == {"User-Agent", "Connection", "Referer", "Accept-Encoding"}

\* history of the strikes: strikes that began to run (started), calls of
\* self.session.get / post (net), responses received (resp), returns after
\* a response with status in [200, 400) or in dry-run (ok), all other
\* returns (fail), of which exceptions caught (fault) and unsupported
\* methods (unsup)
NoTally == [started |-> 0, net |-> 0, resp |-> 0, ok |-> 0, fail |-> 0,
            fault |-> 0, unsup |-> 0]

\* mutant: self.rate_limit = rate_limit
EffectiveRate_NoFloor(r) == r

\* self.rate_limit = max(1, rate_limit)
EffectiveRate(r) == Max(1, r)

\* ------------------------------------------------------------------- Init
\* Alpha.__init__ for every configuration within the bounds.  The pacing
\* delay has no length in this model, so a rate above the floor is run with
\* at most one worker and one request per cycle.
Init ==
  /\ workers \in 0..MaxWorkers
  /\ sockets \in 0..MaxSockets
  /\ method \in Methods
  /\ \E r \in RateArgs :
       /\ rate_limit = EffectiveRate(r)
       /\ r > 1 => (workers <= 1 /\ sockets <= 1)
  /\ dry_run \in BOOLEAN
  /\ duration \in Durations
  /\ counter = <<0, 0>>
  /\ latencies = <<>>
  /\ start_time = 0
  /\ running = TRUE
  /\ session = "none"
  /\ mpc = "init"
  /\ wpc = [w \in 1..MaxWorkers |-> "none"]
  /\ batch = [w \in 1..MaxWorkers |-> <<>>]
  /\ strikes = <<>>
  /\ snapshot = <<>>
  /\ exc = "none"
  /\ interrupted = FALSE
  /\ tally = NoTally

\* a worker that never reaches an await owns the event loop for good
Hogged == \E w \in 1..MaxWorkers : wpc[w] = "spin"

\* the worker tasks run() has just made are queued together and take their
\* first steps one after the other before anything else runs
Starting == \E w \in 1..MaxWorkers : wpc[w] = "ready"

\* mutant: __aenter__ without `if not self.dry_run`
AEnter_AlwaysOpen ==
  /\ mpc = "init"
  /\ start_time' = 1
  /\ session' = "open"
  /\ mpc' = "run"
  /\ UNCHANGED <<cfgVars, counter, latencies, running, wpc, batch, strikes,
                 snapshot, exc, interrupted, tally>>

\* --------------------------------------------------------------- __aenter__
AEnter ==
  /\ mpc = "init"
  /\ start_time' = 1
  /\ session' = IF ~dry_run THEN "open" ELSE session
  /\ mpc' = "run"
  /\ UNCHANGED <<cfgVars, counter, latencies, running, wpc, batch, strikes,
                 snapshot, exc, interrupted, tally>>

\* mutant: the total counts the successes only
Stats_TotalIsSuccess ==
  [ total       |-> counter[1],
    success     |-> counter[1],
    failed      |-> counter[2],
    avg_latency |-> IF latencies # <<>>
                    THEN <<SumSeq(latencies), Len(latencies)>> ELSE <<0, 1>>,
    max_latency |-> IF latencies # <<>> THEN MaxSeq(latencies) ELSE 0 ]

\* ------------------------------------------------------------ get_stats_table
\* the figures print_stats() / get_stats_table() derive; the average is the
\* exact quotient, kept as <<numerator, denominator>>
Stats ==
  [ total       |-> counter[1] + counter[2],
    success     |-> counter[1],
    failed      |-> counter[2],
    avg_latency |-> IF latencies # <<>>
                    THEN <<SumSeq(latencies), Len(latencies)>> ELSE <<0, 1>>,
    max_latency |-> IF latencies # <<>> THEN MaxSeq(latencies) ELSE 0 ]

\* ------------------------------------------------------------ generate_request
\* the headers and body generate_request() returns when it resolves method
\* gm and draws worker_id wid; the tuple does not carry the method
Descriptor(gm, wid) ==
  [ headers    |-> IF Upper(gm) = "POST"
                   THEN BaseHeaders \cup {"Content-Type: application/json"}
                   ELSE BaseHeaders,
    body       |-> IF Upper(gm) = "POST"
                   THEN {[key |-> "data_n", timestamp |-> start_time,
                          worker_id |-> wid]}
                   ELSE {} ]

\* random.randint(1, self.workers) is drawn at the ends of its range
generate_request ==
  { Descriptor(gm, wid) : gm \in ResolveMethod, wid \in {1, workers} }

\* the coroutine object self.strike(url_path, headers, body): created, not
\* started
NewStrike(d) ==
  [ headers |-> d.headers, body |-> d.body, st |-> "created",
    method |-> "none" ]

\* ------------------------------------------------------------------ __aexit__
\* __aexit__ up to its first await: self.running = False; with a session
\* `await self.session.aclose()` (the client is marked closed before aclose
\* first suspends), without one print_stats() at once.  Nothing suspends
\* between the end of run() and this code, so the main-task actions below
\* that leave run() include it.
AExit ==
  /\ running' = FALSE
  /\ IF session = "open"
     THEN /\ session' = "closed"
          /\ mpc' = "closing"
          /\ snapshot' = snapshot
     ELSE /\ session' = session
          /\ snapshot' = <<Stats>>
          /\ mpc' = "closed"

\* aclose() has returned: self.print_stats(); run_wrapper() returns
ACloseDone ==
  /\ mpc = "closing"
  /\ snapshot' = <<Stats>>
  /\ mpc' = "closed"
  /\ UNCHANGED <<cfgVars, engVars, wpc, batch, strikes, exc, interrupted,
                 tally>>

\* ----------------------------------------------------------------------- run
\* dry-run branch of run(): log, then await asyncio.sleep(1)
RunDry ==
  /\ mpc = "run"
  /\ dry_run
  /\ mpc' = "dry_sleep"
  /\ UNCHANGED <<cfgVars, engVars, wpc, batch, strikes, snapshot, exc,
                 interrupted, tally>>

\* the tasks asyncio.create_task / asyncio.gather make of worker_tasks
Spawned == [w \in 1..MaxWorkers |-> IF w <= workers THEN "ready" ELSE "none"]

\* `if self.duration:` branch: asyncio.wait(tasks, timeout=self.duration).
\* asyncio.wait raises ValueError on an empty task list; the finally clause
\* clears self.running and the exception leaves run() through __aexit__.
RunTimed ==
  /\ mpc = "run"
  /\ ~dry_run
  /\ duration # NoDuration /\ duration # 0
  /\ IF workers <= 0
     THEN /\ AExit
          /\ exc' = "ValueError"
          /\ wpc' = wpc
     ELSE /\ wpc' = Spawned
          /\ mpc' = "waiting"
          /\ UNCHANGED <<running, session, snapshot, exc>>
  /\ UNCHANGED <<cfgVars, counter, latencies, start_time, batch, strikes,
                 interrupted, tally>>

\* mutant: the unbounded branch also waits with a timeout
RunUnbounded_WithTimeout ==
  /\ mpc = "run"
  /\ ~dry_run
  /\ duration = NoDuration \/ duration = 0
  /\ IF workers <= 0
     THEN /\ AExit
          /\ wpc' = wpc
     ELSE /\ wpc' = Spawned
          /\ mpc' = "waiting"
          /\ UNCHANGED <<running, session, snapshot>>
  /\ UNCHANGED <<cfgVars, counter, latencies, start_time, batch, strikes,
                 exc, interrupted, tally>>

\* else branch: await asyncio.gather(*worker_tasks).  gather() of nothing is
\* already done, so run() falls through its finally clause into __aexit__.
RunUnbounded ==
  /\ mpc = "run"
  /\ ~dry_run
  /\ duration = NoDuration \/ duration = 0
  /\ IF workers <= 0
     THEN /\ AExit
          /\ wpc' = wpc
     ELSE /\ wpc' = Spawned
          /\ mpc' = "gathering"
          /\ UNCHANGED <<running, session, snapshot>>
  /\ UNCHANGED <<cfgVars, counter, latencies, start_time, batch, strikes,
                 exc, interrupted, tally>>

\* asyncio.sleep(1) of the dry run is over; run() returns
DrySleepDone ==
  /\ mpc = "dry_sleep"
  /\ AExit
  /\ UNCHANGED <<cfgVars, counter, latencies, start_time, wpc, batch, strikes,
                 exc, interrupted, tally>>

\* asyncio.wait stops waiting, cancelling nothing: its timeout expires and it
\* returns, or SIGINT cancels the main task and `except CancelledError: pass`
\* swallows it.  Both go through finally: self.running = False to the return.
Timeout ==
  /\ mpc = "waiting"
  /\ ~Hogged /\ ~Starting
  /\ AExit
  /\ UNCHANGED <<cfgVars, counter, latencies, start_time, wpc, batch, strikes,
                 exc, interrupted, tally>>

\* Task.cancel() on every task that is not finished: a coroutine object
\* still only in a `tasks` list is never awaited ("dropped"), a strike task
\* that has not begun never runs ("unrun"), a strike in flight gets
\* CancelledError at its await, which strike() does not catch ("aborted"),
\* a worker gets it at its sleep or at its gather
CancelStrikes ==
  [i \in DOMAIN strikes |->
     CASE strikes[i].st = "created"   -> [strikes[i] EXCEPT !.st = "dropped"]
       [] strikes[i].st = "scheduled" -> [strikes[i] EXCEPT !.st = "unrun"]
       [] strikes[i].st = "inflight"  -> [strikes[i] EXCEPT !.st = "aborted"]
       [] OTHER                       -> strikes[i]]

CancelWorkers ==
  [w \in 1..MaxWorkers |->
     IF wpc[w] \in {"ready", "sleep", "gather", "spin"}
     THEN "cancelled" ELSE wpc[w]]

\* asyncio.run() after run_wrapper() returned: cancel all remaining tasks,
\* close the loop
LoopTeardown ==
  /\ mpc = "closed"
  /\ strikes' = CancelStrikes
  /\ wpc' = CancelWorkers
  /\ mpc' = "done"
  /\ UNCHANGED <<cfgVars, engVars, batch, snapshot, exc, interrupted, tally>>

\* --------------------------------------------------------------------- worker
\* delay_per_request = 1.0 / self.rate_limit, as <<numerator, denominator>>
delay_per_request == <<1, rate_limit>>

\* a task runs only while the loop is alive and no task hogs it
CanStep == ~Hogged /\ ~Starting /\ mpc # "done"

\* mutant: the worker admits its first descriptor of a batch and goes on
\* without the pacing sleep when one descriptor makes the batch
WorkerLoop_NoPause(w) ==
  IF ~running
  THEN /\ wpc' = [wpc EXCEPT ![w] = "exited"]
       /\ batch' = [batch EXCEPT ![w] = <<>>]
       /\ strikes' = strikes
  ELSE IF sockets <= 0
       THEN /\ wpc' = [wpc EXCEPT ![w] = "spin"]
            /\ batch' = [batch EXCEPT ![w] = <<>>]
            /\ strikes' = strikes
       ELSE /\ Len(strikes) < MaxGen
            /\ \E d \in generate_request :
                 strikes' = Append(strikes,
                   [NewStrike(d) EXCEPT
                      !.st = IF sockets = 1 THEN "scheduled" ELSE "created"])
            /\ batch' = [batch EXCEPT ![w] = <<Len(strikes) + 1>>]
            /\ wpc' = [wpc EXCEPT ![w] = IF sockets = 1 THEN "gather"
                                         ELSE "sleep"]

\* worker(): evaluate `while self.running:` and run on to the next await.
\* With sockets = 0 the for loop is empty and `await asyncio.gather()` is
\* already done, so the loop never suspends again.
WorkerLoop(w) ==
  IF ~running
  THEN /\ wpc' = [wpc EXCEPT ![w] = "exited"]
       /\ batch' = [batch EXCEPT ![w] = <<>>]
       /\ strikes' = strikes
  ELSE IF sockets <= 0
       THEN /\ wpc' = [wpc EXCEPT ![w] = "spin"]
            /\ batch' = [batch EXCEPT ![w] = <<>>]
            /\ strikes' = strikes
       ELSE /\ Len(strikes) < MaxGen
            /\ \E d \in generate_request :
                 strikes' = Append(strikes, NewStrike(d))
            /\ batch' = [batch EXCEPT ![w] = <<Len(strikes) + 1>>]
            /\ wpc' = [wpc EXCEPT ![w] = "sleep"]

\* first step of a worker task, in the order the tasks were made
WorkerStart(w) ==
  /\ ~Hogged
  /\ wpc[w] = "ready"
  /\ \A v \in 1..(w - 1) : wpc[v] # "ready"
  /\ WorkerLoop(w)
  /\ UNCHANGED <<cfgVars, engVars, mpc, snapshot, exc, interrupted, tally>>

InBatch(w, i) == \E k \in DOMAIN batch[w] : batch[w][k] = i

\* asyncio.sleep(delay_per_request) is over: next iteration of the for loop
\* (generate, append, sleep), or after the last one asyncio.gather(*tasks),
\* which makes a task of every strike of the batch
WorkerWake(w) ==
  /\ CanStep
  /\ wpc[w] = "sleep"
  /\ IF Len(batch[w]) < sockets
     THEN /\ Len(strikes) < MaxGen
          /\ \E d \in generate_request :
               strikes' = Append(strikes, NewStrike(d))
          /\ batch' = [batch EXCEPT ![w] = Append(@, Len(strikes) + 1)]
          /\ wpc' = wpc
     ELSE /\ strikes' = [i \in DOMAIN strikes |->
                           IF InBatch(w, i)
                           THEN [strikes[i] EXCEPT !.st = "scheduled"]
                           ELSE strikes[i]]
          /\ wpc' = [wpc EXCEPT ![w] = "gather"]
          /\ batch' = batch
  /\ UNCHANGED <<cfgVars, engVars, mpc, snapshot, exc, interrupted, tally>>

\* mutant: the worker goes round its loop as soon as one strike of the batch
\* has returned
WorkerBatchDone_Early(w) ==
  /\ CanStep
  /\ wpc[w] = "gather"
  /\ \E k \in DOMAIN batch[w] : strikes[batch[w][k]].st = "done"
  /\ WorkerLoop(w)
  /\ UNCHANGED <<cfgVars, engVars, mpc, snapshot, exc, interrupted, tally>>

\* every strike of the batch has returned: gather completes, the worker
\* goes round the while loop
WorkerBatchDone(w) ==
  /\ CanStep
  /\ wpc[w] = "gather"
  /\ \A k \in DOMAIN batch[w] : strikes[batch[w][k]].st = "done"
  /\ WorkerLoop(w)
  /\ UNCHANGED <<cfgVars, engVars, mpc, snapshot, exc, interrupted, tally>>

\* --------------------------------------------------------------------- strike
\* strike() has returned: the coroutine and its arguments are gone
Returned(r) ==
  [headers |-> {}, body |-> {}, st |-> "done", method |-> "none"]

\* mutant: the unsupported-method branch returns without counting
StrikeEntry_UnsupportedUncounted(r, m, c, t) ==
  IF dry_run
  THEN <<Returned(r), [c EXCEPT ![1] = @ + 1],
         [t EXCEPT !.started = @ + 1, !.ok = @ + 1]>>
  ELSE IF Upper(m) = "GET" \/ Upper(m) = "POST"
       THEN IF session = "open"
            THEN <<[r EXCEPT !.st = "inflight", !.method = m,
                             !.headers = {}, !.body = {}], c,
                   [t EXCEPT !.started = @ + 1, !.net = @ + 1]>>
            ELSE <<Returned(r), [c EXCEPT ![2] = @ + 1],
                   [t EXCEPT !.started = @ + 1, !.net = @ + 1,
                             !.fail = @ + 1, !.fault = @ + 1]>>
       ELSE <<Returned(r), c,
              [t EXCEPT !.started = @ + 1, !.fail = @ + 1, !.unsup = @ + 1]>>

\* strike() from its entry to its first await or its return, for a strike
\* that resolves method m:  <<record, counter, tally>> after the step.  The
\* call of self.session.get / post hands headers and body to the client.
StrikeEntry(r, m, c, t) ==
  IF dry_run
  THEN <<Returned(r), [c EXCEPT ![1] = @ + 1],
         [t EXCEPT !.started = @ + 1, !.ok = @ + 1]>>
  ELSE IF Upper(m) = "GET" \/ Upper(m) = "POST"
       THEN IF session = "open"
            THEN <<[r EXCEPT !.st = "inflight", !.method = m,
                             !.headers = {}, !.body = {}], c,
                   [t EXCEPT !.started = @ + 1, !.net = @ + 1]>>
            ELSE \* the closed client refuses to send: RuntimeError, caught
                 \* by `except Exception`
                 <<Returned(r), [c EXCEPT ![2] = @ + 1],
                   [t EXCEPT !.started = @ + 1, !.net = @ + 1,
                             !.fail = @ + 1, !.fault = @ + 1]>>
       ELSE <<Returned(r), [c EXCEPT ![2] = @ + 1],
              [t EXCEPT !.started = @ + 1, !.fail = @ + 1, !.unsup = @ + 1]>>

\* the strikes of batch b from position k on take their first steps, one
\* after the other, each with its own method ms[k]
RECURSIVE StartFrom(_, _, _, _, _, _)
StartFrom(b, ms, k, ss, c, t) ==
  IF k > Len(b)
  THEN <<ss, c, t>>
  ELSE LET e == StrikeEntry(ss[b[k]], ms[k], c, t)
       IN  StartFrom(b, ms, k + 1, [ss EXCEPT ![b[k]] = e[1]], e[2], e[3])

\* the tasks gather() made run their first steps back to back: they were
\* queued together, and no first step queues anything
BatchStart(w) ==
  /\ CanStep
  /\ wpc[w] = "gather"
  /\ batch[w] # <<>>
  /\ \A k \in DOMAIN batch[w] : strikes[batch[w][k]].st = "scheduled"
  /\ \E ms \in [DOMAIN batch[w] -> ResolveMethod] :
       LET e == StartFrom(batch[w], ms, 1, strikes, counter, tally)
       IN  /\ strikes' = e[1]
           /\ counter' = e[2]
           /\ tally' = e[3]
  /\ UNCHANGED <<cfgVars, latencies, start_time, running, session, mpc, wpc,
                 batch, snapshot, exc, interrupted>>

\* what may come back for a request in flight: a status, or 0 for an
\* httpx.HTTPError / other exception
Outcomes == Statuses \cup {0}

\* mutant: `if 200 <= resp.status_code <= 400`
Classify_Includes400(status) ==
  IF 200 <= status /\ status <= 400
  THEN [counter EXCEPT ![1] = @ + 1]
  ELSE [counter EXCEPT ![2] = @ + 1]

\* mutant: the increment writes back a value read before the await (the
\* counter as it was when no request had returned)
Classify_LostUpdate(status) ==
  IF 200 <= status /\ status < 400
  THEN [counter EXCEPT ![1] = 1]
  ELSE [counter EXCEPT ![2] = 1]

\* `if 200 <= resp.status_code < 400` on the counter
Classify(status) ==
  IF 200 <= status /\ status < 400
  THEN [counter EXCEPT ![1] = @ + 1]
  ELSE [counter EXCEPT ![2] = @ + 1]

\* mutant: strike() without its except clauses: a fault is not counted and
\* ends the worker whose gather awaits the strike
StrikeComplete_FaultEscapes(i) ==
  /\ CanStep
  /\ strikes[i].st = "inflight"
  /\ \E o \in Outcomes :
       IF o # 0
       THEN /\ \E l \in 1..MaxLatency : latencies' = Append(latencies, l)
            /\ counter' = Classify(o)
            /\ tally' = IF o \in 200..399
                        THEN [tally EXCEPT !.resp = @ + 1, !.ok = @ + 1]
                        ELSE [tally EXCEPT !.resp = @ + 1, !.fail = @ + 1]
            /\ wpc' = wpc
       ELSE /\ latencies' = latencies
            /\ counter' = counter
            /\ tally' = [tally EXCEPT !.fail = @ + 1, !.fault = @ + 1]
            /\ wpc' = [w \in 1..MaxWorkers |->
                         IF InBatch(w, i) THEN "exited" ELSE wpc[w]]
  /\ strikes' = [strikes EXCEPT ![i] = Returned(strikes[i])]
  /\ UNCHANGED <<cfgVars, start_time, running, session, mpc, batch,
                 snapshot, exc, interrupted>>

\* mutant: the latency is appended in a finally clause, after a fault too
StrikeComplete_FaultSampled(i) ==
  /\ CanStep
  /\ strikes[i].st = "inflight"
  /\ \E o \in Outcomes :
       /\ \E l \in 1..MaxLatency : latencies' = Append(latencies, l)
       /\ IF o # 0
          THEN /\ counter' = Classify(o)
               /\ tally' = IF o \in 200..399
                           THEN [tally EXCEPT !.resp = @ + 1, !.ok = @ + 1]
                           ELSE [tally EXCEPT !.resp = @ + 1, !.fail = @ + 1]
          ELSE /\ counter' = [counter EXCEPT ![2] = @ + 1]
               /\ tally' = [tally EXCEPT !.fail = @ + 1, !.fault = @ + 1]
  /\ strikes' = [strikes EXCEPT ![i] = Returned(strikes[i])]
  /\ UNCHANGED <<cfgVars, start_time, running, session, mpc, wpc, batch,
                 snapshot, exc, interrupted>>

\* the awaited request ends; strike() runs on to its return
StrikeComplete(i) ==
  /\ CanStep
  /\ strikes[i].st = "inflight"
  /\ \E o \in Outcomes :
       IF o # 0
       THEN /\ \E l \in 1..MaxLatency : latencies' = Append(latencies, l)
            /\ counter' = Classify(o)
            /\ tally' = IF o \in 200..399
                        THEN [tally EXCEPT !.resp = @ + 1, !.ok = @ + 1]
                        ELSE [tally EXCEPT !.resp = @ + 1, !.fail = @ + 1]
       ELSE /\ latencies' = latencies
            /\ counter' = [counter EXCEPT ![2] = @ + 1]
            /\ tally' = [tally EXCEPT !.fail = @ + 1, !.fault = @ + 1]
  /\ strikes' = [strikes EXCEPT ![i] = Returned(strikes[i])]
  /\ UNCHANGED <<cfgVars, start_time, running, session, mpc, wpc, batch,
                 snapshot, exc, interrupted>>

\* ------------------------------------------------------------------ interrupt
\* SIGINT under asyncio.run() while run() waits.  Newer interpreters cancel
\* the main task, older ones (and any with a hogged loop) raise
\* KeyboardInterrupt out of the loop and cancel every task; `old` chooses
\* between them.  Either way run() handles CancelledError, clears
\* self.running and returns into __aexit__.

\* during the dry-run sleep, which is outside run()'s try block
InterruptDry ==
  /\ mpc = "dry_sleep"
  /\ AExit
  /\ exc' = "KeyboardInterrupt"
  /\ interrupted' = TRUE
  /\ UNCHANGED <<cfgVars, counter, latencies, start_time, wpc, batch, strikes,
                 tally>>

\* during asyncio.wait: KeyboardInterrupt out of the loop, whose teardown
\* cancels the main task and every other one.  (A cancellation of the main
\* task alone is the second case of Timeout.)
InterruptWait ==
  /\ mpc = "waiting"
  /\ strikes' = CancelStrikes
  /\ wpc' = CancelWorkers
  /\ exc' = "KeyboardInterrupt"
  /\ AExit
  /\ interrupted' = TRUE
  /\ UNCHANGED <<cfgVars, counter, latencies, start_time, batch, tally>>

\* during asyncio.gather: cancelling gather cancels every worker, and a
\* worker's gather cancels its strikes
InterruptGather ==
  /\ mpc = "gathering"
  /\ \E old \in BOOLEAN :
       /\ Hogged => old
       /\ exc' = IF old THEN "KeyboardInterrupt" ELSE exc
  /\ strikes' = CancelStrikes
  /\ wpc' = CancelWorkers
  /\ AExit
  /\ interrupted' = TRUE
  /\ UNCHANGED <<cfgVars, counter, latencies, start_time, batch, tally>>

\* ----------------------------------------------------------------------- Next
Next ==
  \/ AEnter
  \/ RunDry
  \/ RunTimed
  \/ RunUnbounded
  \/ DrySleepDone
  \/ Timeout
  \/ ACloseDone
  \/ LoopTeardown
  \/ \E w \in 1..MaxWorkers : WorkerStart(w)
  \/ \E w \in 1..MaxWorkers : WorkerWake(w)
  \/ \E w \in 1..MaxWorkers : BatchStart(w)
  \/ \E i \in DOMAIN strikes : StrikeComplete(i)
  \/ \E w \in 1..MaxWorkers : WorkerBatchDone(w)
  \/ InterruptDry
  \/ InterruptWait
  \/ InterruptGather

Spec == Init /\ [][Next]_vars

\* the event loop runs every callback that is ready: the main task takes its
\* next step once what it awaits is over (the sleep, the timeout, aclose),
\* and so does every worker and strike task.  Interrupts come from outside
\* and are under no fairness.
MainStep ==
  \/ AEnter \/ RunDry \/ RunTimed \/ RunUnbounded \/ DrySleepDone \/ Timeout
  \/ ACloseDone \/ LoopTeardown

TaskStep ==
  \/ \E w \in 1..MaxWorkers :
       WorkerStart(w) \/ WorkerWake(w) \/ BatchStart(w) \/ WorkerBatchDone(w)
  \/ \E i \in DOMAIN strikes : StrikeComplete(i)

FairSpec == Init /\ [][Next]_vars /\ WF_vars(MainStep) /\ WF_vars(TaskStep)

\* ------------------------------------------------------------------- RunState
\* the spec's RunState, read off self.running and the main task's position
RunState ==
  IF mpc = "init" THEN "INIT"
  ELSE IF mpc \in {"closed", "done"} THEN "CLOSED"
  ELSE IF running THEN "ACTIVE" ELSE "STOPPING"

\* strikes that have returned / are awaiting their request / were cancelled
\* while awaiting it
NumDone == Cardinality({i \in DOMAIN strikes : strikes[i].st = "done"})
NumInFlight == Cardinality({i \in DOMAIN strikes : strikes[i].st = "inflight"})
NumAborted == Cardinality({i \in DOMAIN strikes : strikes[i].st = "aborted"})

\* ===================================================================== claims

\* C1 (as stated): in every reachable state success + failure equals the
\* number of request attempts dispatched so far.
C1_CountersEqualDispatched ==
  counter[1] + counter[2] = tally.started

\* C1 (amended): in every reachable state success + failure equals the
\* number of strikes that have returned; the attempts dispatched exceed it
\* by exactly the strikes still in flight or cancelled in flight.
C1_CountersEqualReturned ==
  /\ counter[1] + counter[2] = NumDone
  /\ tally.started = counter[1] + counter[2] + NumInFlight + NumAborted

C1_Witness ==
  /\ NumInFlight >= 1
  /\ counter[1] >= 1
  /\ counter[2] >= 1

\* C2: after a stop trigger no request is forcibly aborted, and the engine
\* closes the connection and produces the final snapshot only when no
\* strike of any worker is still scheduled or in flight.
C2_SoftStop ==
  /\ \A i \in DOMAIN strikes : strikes[i].st # "aborted"
  /\ (session = "closed" \/ snapshot # <<>>) =>
       \A i \in DOMAIN strikes : strikes[i].st \notin {"scheduled", "inflight"}

\* C3: for workers=1, sockets=1, rate_limit=1, dry_run=true the finished run
\* has counted at least one success and no failure.
C3_DryRunCountsSuccess ==
  (dry_run /\ workers = 1 /\ sockets = 1 /\ rate_limit = 1
     /\ RunState = "CLOSED")
  => (counter[1] >= 1 /\ counter[2] = 0)

\* C4: in dry-run mode no network call is made, no connection resource is
\* acquired and no worker is spawned, for every workers / sockets value ...
C4_DryQuiet ==
  dry_run =>
    /\ session = "none"
    /\ tally.net = 0 /\ tally.started = 0
    /\ strikes = <<>>
    /\ \A w \in 1..MaxWorkers : wpc[w] = "none"
    /\ mpc \in {"init", "run", "dry_sleep", "closed", "done"}

\* ... and the step that ends the fixed pause takes the run to STOPPING and
\* CLOSED at once (self.running cleared, final snapshot produced).
C4_DryStep ==
  (dry_run /\ mpc = "dry_sleep") =>
    (mpc' = "closed" /\ ~running' /\ snapshot' # <<>> /\ session' = "none")

\* C4: both parts
C4_DryRun == []C4_DryQuiet /\ [][C4_DryStep]_vars

C4_Witness ==
  dry_run /\ workers = 2 /\ sockets = 2 /\ RunState = "CLOSED" /\ ~interrupted

\* C5: every returned non-dry-run strike has incremented exactly one counter
\* by one: success iff a response with status in [200, 400) came back,
\* failure otherwise; an unsupported method fails without a network call;
\* as long as the target has answered nothing in [200, 400) (500 to every
\* request, say), success = 0 and failure = all returned attempts.
C5_Classification ==
  ~dry_run =>
    /\ counter = <<tally.ok, tally.fail>>
    /\ counter[1] + counter[2] = NumDone
    /\ tally.ok <= tally.resp
    /\ (method = METHOD_PUT => tally.net = 0 /\ tally.unsup = NumDone)
    /\ (tally.ok = 0 => counter = <<0, NumDone>>)

C5_Witness ==
  /\ tally.ok >= 1
  /\ tally.resp - tally.ok >= 1
  /\ tally.fault >= 1

\* C6: a step in which a strike absorbs a transport fault adds the faults to
\* the failure counter and changes nothing else of the engine: success
\* counter, self.running, the main task, the pending exception, the session,
\* the snapshot and every worker stay as they were ...
C6_FaultStep ==
  (tally'.fault > tally.fault) =>
    /\ counter'[2] - counter[2] = tally'.fault - tally.fault
    /\ counter'[1] = counter[1]
    /\ running' = running /\ mpc' = mpc /\ exc' = exc
    /\ session' = session /\ snapshot' = snapshot
    /\ wpc' = wpc

\* ... and as long as no request has been answered (the target is
\* unreachable) every returned attempt is a failure by a fault, while an
\* exception leaves the program only for causes other than faults (no
\* worker to wait for, or an interrupt).
C6_Unreachable ==
  (tally.resp = 0 /\ method # METHOD_PUT) =>
    /\ counter = <<0, NumDone>>
    /\ tally.fault = NumDone
    /\ (exc # "none" => (workers = 0 \/ interrupted))

C7_AttemptedOnce ==
  (mpc = "done" /\ ~interrupted) =>
    /\ tally.started = Len(strikes)
    /\ \A i \in DOMAIN strikes :
         /\ strikes[i].st # "dropped"
         /\ strikes[i].st # "unrun"

\* C8: every run with a duration set reaches CLOSED, for every worker count
\* and sockets count, and the final snapshot is produced once only.
C8_ReachesClosedOnce ==
  /\ (duration >= 1) => <>(RunState = "CLOSED")
  /\ [][snapshot # <<>> => snapshot' = snapshot]_vars

\* C9: every strike that dispatches its request as POST hands over the JSON
\* body with keys key, timestamp, worker_id (worker_id in 1..workers) and
\* the JSON Content-Type header that were generated for it.
C9_PostStep ==
  \A i \in DOMAIN strikes :
    (strikes[i].st = "scheduled" /\ strikes'[i].st = "inflight"
       /\ Upper(strikes'[i].method) = "POST") =>
      /\ strikes[i].body # {}
      /\ \A b \in strikes[i].body :
           /\ DOMAIN b = {"key", "timestamp", "worker_id"}
           /\ b.worker_id \in 1..workers
      /\ "Content-Type: application/json" \in strikes[i].headers

C9_PostCarriesBody == [][C9_PostStep]_vars

C11_SnapshotStep ==
  (snapshot' # snapshot) =>
    /\ counter' = counter /\ latencies' = latencies
    /\ start_time' = start_time /\ session' = session
    /\ ~running' /\ (mpc = "closing" => running' = running)
    /\ Len(snapshot') = 1
    /\ snapshot'[1].success = counter[1] /\ snapshot'[1].failed = counter[2]
    /\ snapshot'[1].total = counter[1] + counter[2]
    /\ (latencies = <<>> =>
          /\ snapshot'[1].avg_latency[1] = 0
          /\ snapshot'[1].max_latency = 0)
    /\ (latencies # <<>> =>
          /\ snapshot'[1].avg_latency[2] = Len(latencies)
          /\ \A k \in DOMAIN latencies :
               latencies[k] <= snapshot'[1].max_latency)

C11_SnapshotReadOnly == [][C11_SnapshotStep]_vars

C11_Witness ==
  /\ snapshot # <<>>
  /\ snapshot[1].success >= 1 /\ snapshot[1].failed >= 1
  /\ snapshot[1].total >= 2
  /\ snapshot[1].max_latency >= 1

\* worker w is between batches: about to evaluate `while self.running`
\* (not yet started, or its gather is complete)
BetweenBatches(w) ==
  \/ wpc[w] = "ready"
  \/ /\ wpc[w] = "gather"
     /\ \A k \in DOMAIN batch[w] : strikes[batch[w][k]].st = "done"

\* C12: a worker begins a batch only between batches and only while
\* self.running holds, and a worker's task ends only between batches: a
\* worker that has begun a batch admits all `sockets` descriptors and
\* dispatches them before it exits.  Stated for the runs without interrupt.
C12_WorkerStep ==
  \A w \in 1..MaxWorkers :
    /\ (batch'[w] # batch[w] /\ Len(batch'[w]) = 1) =>
         (running /\ BetweenBatches(w))
    /\ (~interrupted' /\ wpc[w] \notin {"none", "exited", "cancelled"}
          /\ wpc'[w] \in {"exited", "cancelled"}) =>
         BetweenBatches(w)

C12_ExitBetweenBatches == [][C12_WorkerStep]_vars

\* how far a strike has got: 0 only admitted to `tasks`, 1 made a task by
\* gather, 2 begun to run
Phase(st) ==
  CASE st \in {"created", "dropped"} -> 0
    [] st \in {"scheduled", "unrun"} -> 1
    [] OTHER                         -> 2

\* C13: in every state the strikes of a worker's batch are all at the same
\* phase, and none is past admission before the batch has all `sockets`
\* descriptors ...
C13_Together ==
  \A w \in 1..MaxWorkers :
    /\ \A k \in DOMAIN batch[w] :
         Phase(strikes[batch[w][k]].st) = Phase(strikes[batch[w][1]].st)
    /\ (\E k \in DOMAIN batch[w] : Phase(strikes[batch[w][k]].st) >= 1) =>
         Len(batch[w]) = sockets

\* ... the requests of a batch begin in one step, after which all that
\* reached the open session are in flight at the same time, and a worker
\* admits the first descriptor of its next batch only when every strike of
\* the current one has returned.
C13_Step ==
  \A w \in 1..MaxWorkers :
    /\ (\E k \in DOMAIN batch[w] :
          /\ strikes[batch[w][k]].st = "scheduled"
          /\ strikes'[batch[w][k]].st \in {"inflight", "done"}) =>
         /\ Len(batch[w]) = sockets
         /\ \A k \in DOMAIN batch[w] :
              /\ strikes[batch[w][k]].st = "scheduled"
              /\ strikes'[batch[w][k]].st \in {"inflight", "done"}
              /\ (session = "open" /\ ~dry_run /\ method # METHOD_PUT) =>
                   strikes'[batch[w][k]].st = "inflight"
    /\ (batch'[w] # batch[w] /\ Len(batch'[w]) = 1) =>
         \A k \in DOMAIN batch[w] : strikes[batch[w][k]].st = "done"

C13_BatchFiresTogether == []C13_Together /\ [][C13_Step]_vars

C13_Witness ==
  /\ workers = 1 /\ sockets = 2
  /\ Len(strikes) = 3
  /\ batch[1] = <<3>>
  /\ strikes[1].st = "done" /\ strikes[2].st = "done"
  /\ tally.resp >= 2

\* the strike that a step of worker w admits to its `tasks` list (0 if none)
Admitted(w) ==
  IF batch'[w] # batch[w] /\ batch'[w] # <<>>
  THEN batch'[w][Len(batch'[w])] ELSE 0

\* C14 (as stated): every admission, the first of a batch included, follows
\* a pacing delay that the worker spent after generating the descriptor:
\* the admitting step starts from the worker's sleep and admits a descriptor
\* that existed before it.
C14_AdmitStep ==
  \A w \in 1..MaxWorkers :
    Admitted(w) # 0 =>
      (wpc[w] = "sleep" /\ Admitted(w) \in DOMAIN strikes)

C14_PacedBeforeAdmission == [][C14_AdmitStep]_vars

\* C14 (amended): a descriptor is admitted in the step that generates it and
\* the pacing delay follows (generate, include, wait): every admitting step
\* ends in the worker's pacing sleep, so two successive admissions of a
\* worker are separated by a pacing delay, every admission but the first of
\* a batch starts from that sleep, and a batch is handed to gather only from
\* the sleep that follows its last admission.
C14_PaceStep ==
  \A w \in 1..MaxWorkers :
    /\ Admitted(w) # 0 =>
         /\ Admitted(w) = Len(strikes) + 1
         /\ Len(strikes') = Len(strikes) + 1
         /\ wpc'[w] = "sleep"
         /\ (Len(batch'[w]) >= 2 => wpc[w] = "sleep")
         /\ (Len(batch'[w]) = 1 => wpc[w] \in {"ready", "gather"})
    /\ (wpc[w] # "gather" /\ wpc'[w] = "gather") =>
         (wpc[w] = "sleep" /\ Len(batch[w]) = sockets)

C14_PacedAfterAdmission == [][C14_PaceStep]_vars

C14_Witness ==
  /\ sockets = 2 /\ workers = 2
  /\ \E w \in 1..MaxWorkers :
       /\ wpc[w] = "gather" /\ Len(batch[w]) = 2
       /\ \A k \in DOMAIN batch[w] : strikes[batch[w][k]].st = "inflight"

\* C15: whenever a duration is supplied (0 included) the engine's wait for
\* its workers is bounded by it, so that the run stops by itself: the main
\* task is never in the unbounded gather, which only an interrupt ends.
C15_DurationBoundsWait ==
  (~dry_run /\ duration # NoDuration) => mpc # "gathering"

\* strikes that return in the step
Returning == {i \in DOMAIN strikes : strikes[i].st # "done" /\ strikes'[i].st = "done"}

\* C16: in every state the success counter is the number of strikes that
\* completed as success and the failure counter the number that completed
\* as failure, whatever the interleaving of workers and requests ...
C16_CountersMatch ==
  /\ counter = <<tally.ok, tally.fail>>
  /\ counter[1] + counter[2] = NumDone

\* ... every step adds to the counters exactly the strikes that return in
\* it, and no counter ever decreases.
C16_CounterStep ==
  /\ counter'[1] >= counter[1]
  /\ counter'[2] >= counter[2]
  /\ (counter'[1] - counter[1]) + (counter'[2] - counter[2])
       = Cardinality(Returning)

C16_NoLostUpdate == []C16_CountersMatch /\ [][C16_CounterStep]_vars

C16_Witness ==
  /\ workers = 2
  /\ counter[1] >= 1 /\ counter[2] >= 1
  /\ counter[1] + counter[2] = 3
  /\ wpc[1] \in {"sleep", "gather"} /\ wpc[2] \in {"sleep", "gather"}
  /\ batch[1] # <<>> /\ batch[2] # <<>>

\* C17: every step in which a strike calls self.session.get / post finds
\* the session open.
C17_NetStep ==
  (tally'.net > tally.net) => session = "open"

C17_SessionOpenAtCall == [][C17_NetStep]_vars

\* C18: once the final snapshot has been produced, no step changes the
\* counters or the latency samples.
C18_FinalStep ==
  (snapshot # <<>>) => (counter' = counter /\ latencies' = latencies)

C18_FrozenAfterSnapshot == [][C18_FinalStep]_vars

\* s is t with zero or more elements appended
IsPrefix(s, t) ==
  /\ Len(s) <= Len(t)
  /\ \A k \in DOMAIN s : s[k] = t[k]

\* C19: in every state the number of latency samples is the number of
\* strikes that got an HTTP response, which is at most success + failure;
\* the strikes that returned by a fault, an unsupported method or in
\* dry-run are counted and left no sample ...
C19_SampleCount ==
  /\ Len(latencies) = tally.resp
  /\ Len(latencies) <= counter[1] + counter[2]
  /\ counter[1] + counter[2] - Len(latencies)
       = tally.fault + tally.unsup + (IF dry_run THEN tally.ok ELSE 0)

\* ... and a step only ever appends samples, one for each response it
\* receives.
C19_SampleStep ==
  /\ IsPrefix(latencies, latencies')
  /\ Len(latencies') - Len(latencies) = tally'.resp - tally.resp
  /\ (tally'.fault > tally.fault \/ tally'.unsup > tally.unsup) =>
       latencies' = latencies

C19_SamplesAreResponses == []C19_SampleCount /\ [][C19_SampleStep]_vars

C19_Witness ==
  /\ Len(latencies) >= 1
  /\ tally.fault >= 1
  /\ tally.resp - tally.ok >= 1
  /\ Len(latencies) < counter[1] + counter[2]

\* C20: for every rate_limit argument the effective rate limit is one the
\* constructor yields and at least 1, so the pacing delay 1 / rate_limit is
\* defined and in (0, 1] ...
C20_RateFloor ==
  /\ rate_limit \in {EffectiveRate(r) : r \in RateArgs}
  /\ rate_limit >= 1
  /\ delay_per_request[2] # 0
  /\ 0 < delay_per_request[1] * delay_per_request[2]
  /\ delay_per_request[1] <= delay_per_request[2]

\* ... and no step of the run changes a configuration field.
C20_ConfigStep ==
  /\ workers' = workers /\ sockets' = sockets /\ method' = method
  /\ rate_limit' = rate_limit /\ dry_run' = dry_run /\ duration' = duration

C20_RateAtLeastOne == []C20_RateFloor /\ [][C20_ConfigStep]_vars

C20_Witness ==
  /\ rate_limit = 2
  /\ mpc = "done"
  /\ counter[1] + counter[2] >= 2

====
